---- MODULE Spec2Model ----
(***************************************************************************)
(* Marketplace API (src/main.py, src/schemas.py): the product, cart and    *)
(* order collections of the document store and the handlers that read and  *)
(* write them.  Money is kept in integer cents.  Text is a sequence of     *)
(* one-character strings so that searching it is computed, not assumed.    *)
(***************************************************************************)
EXTENDS Integers, Sequences, FiniteSets, TLC

VARIABLES
    product,    \* db["product"]: product id -> document
    issued,     \* how many product ids the store has generated so far
    cart,       \* db["cart"]: sequence of documents, _id = position
    order,      \* db["order"]: sequence of documents, _id = position
    inflight,   \* checkout requests in progress: request -> local variables
    submitted,  \* user -> product_id -> sum of the qtys added since that
                \* product_id was last out of the user's cart
    last        \* the last request served and its response

vars == <<product, issued, cart, order, inflight, submitted, last>>
store == <<product, issued, cart, order>>

----------------------------------------------------------------------------
(* Bounds of the model *)

MaxQty == 2
MaxOrders == 2

\* limit: Optional[int] = 50
DefaultLimit == 50

Users == {"u1", "u2"}
\* identifiers the store hands out, in the order it generates them
IdSeq == <<"p1", "p2">>
ProductIds == {IdSeq[i] : i \in 1..Len(IdSeq)}
\* a string that is no ObjectId
BadId == "zz"
CartIds == ProductIds \cup {BadId}
Qtys == {1, 2}
Requests == {"r1", "r2"}

----------------------------------------------------------------------------
(* Documents and identifiers *)

\* to_obj_id: ObjectId(id_str) succeeds, or the request ends 400 "Invalid id"
to_obj_id_ok(id) == id \in ProductIds

\* Product payloads accepted by POST /api/products in the cart runs
Product(title, price, shop, category, tags) ==
    [shop_id |-> shop, title |-> title, price |-> price,
     category |-> category, tags |-> tags]

Cart(user_id, items) == [user_id |-> user_id, items |-> items]

Order(user_id, items, total, status) ==
    [user_id |-> user_id, items |-> items, total |-> total, status |-> status]

\* Order.total is declared ge=0: constructing an Order with a negative
\* total raises a validation error
OrderValid(total) == total >= 0

\* database.create_document on a sequence-shaped collection: the document
\* is appended and its new identifier returned
create_document(coll, doc) == Append(coll, doc)

\* the next identifier the store generates for a product
NextProductId == IF issued < Len(IdSeq) THEN IdSeq[issued + 1] ELSE ""

\* a lookup on a field no cart document has: nothing is ever found
find_cart_by_wrong_field(c, u) == 0

\* db["cart"].find_one({"user_id": u}): position of the first match, 0 if none
find_cart(c, u) ==
    IF \E i \in 1..Len(c) : c[i].user_id = u
    THEN CHOOSE i \in 1..Len(c) :
            c[i].user_id = u /\ \A j \in 1..(i-1) : c[j].user_id # u
    ELSE 0

\* serialize: the document with its _id rendered as id
serialize(id, doc) == [id |-> id, user_id |-> doc.user_id, items |-> doc.items]

\* the update with a filter that matches every cart
set_items_everywhere(c, id, items) == [k \in DOMAIN c |-> [c[k] EXCEPT !.items = items]]

\* db["cart"].update_one({"_id": id}, {"$set": {"items": items}})
set_items(c, id, items) == [c EXCEPT ![id].items = items]

Response(op, user, pid, qty, status, detail, body) ==
    [op |-> op, user |-> user, pid |-> pid, qty |-> qty,
     status |-> status, detail |-> detail, body |-> body]

NoBody == <<>>
\* the local variables of a checkout request: where it is, the cart it
\* read, the loop index and the accumulators
Idle == [pc |-> "idle", user |-> "", cart_id |-> 0, items |-> <<>>,
         i |-> 0, order_items |-> <<>>, total |-> 0, order_id |-> 0]

----------------------------------------------------------------------------
(* Products *)

create_product(p) ==
    /\ issued < Len(IdSeq)
    /\ product' = (NextProductId :> p) @@ product
    /\ issued' = issued + 1
    /\ last' = Response("create_product", "", "", 0, 200, "", NoBody)
    /\ UNCHANGED <<cart, order, inflight, submitted>>

\* a price change that is also written through to the orders' lines
reprice(o, id, price) ==
    [k \in DOMAIN o |->
        [o[k] EXCEPT !.items =
            [j \in DOMAIN @ |->
                IF @[j].product_id = id THEN [@[j] EXCEPT !.price = price] ELSE @[j]]]]
update_product_and_orders(id, price) ==
    /\ to_obj_id_ok(id)
    /\ id \in DOMAIN product
    /\ product' = [product EXCEPT ![id].price = price]
    /\ order' = reprice(order, id, price)
    /\ last' = Response("update_product", "", "", 0, 200, "", NoBody)
    /\ UNCHANGED <<issued, cart, inflight, submitted>>

\* PATCH with payload {"price": price}; the payload is not validated
update_product(id, price) ==
    /\ IF ~to_obj_id_ok(id)
       THEN /\ last' = Response("update_product", "", "", 0, 400, "Invalid id", NoBody)
            /\ UNCHANGED product
       ELSE IF id \notin DOMAIN product
       THEN /\ last' = Response("update_product", "", "", 0, 404, "Product not found", NoBody)
            /\ UNCHANGED product
       ELSE /\ product' = [product EXCEPT ![id].price = price]
            /\ last' = Response("update_product", "", "", 0, 200, "", NoBody)
    /\ UNCHANGED <<issued, cart, order, inflight, submitted>>

delete_product(id) ==
    /\ IF ~to_obj_id_ok(id)
       THEN /\ last' = Response("delete_product", "", "", 0, 400, "Invalid id", NoBody)
            /\ UNCHANGED product
       ELSE IF id \notin DOMAIN product
       THEN /\ last' = Response("delete_product", "", "", 0, 404, "Product not found", NoBody)
            /\ UNCHANGED product
       ELSE /\ product' = [x \in DOMAIN product \ {id} |-> product[x]]
            /\ last' = Response("delete_product", "", "", 0, 200, "", NoBody)
    /\ UNCHANGED <<issued, cart, order, inflight, submitted>>

----------------------------------------------------------------------------
(* Product listing *)

\* the case folding of the "i" option, on the characters the runs use
Lower(c) ==
    CASE c = "R" -> "r"
      [] c = "S" -> "s"
      [] c = "H" -> "h"
      [] OTHER -> c

\* one pattern character against one text character: "." is the regular
\* expression wildcard, every other character of the runs stands for itself
regex_char(pc, c) == pc = "." \/ Lower(pc) = Lower(c)

\* {"$regex": q, "$options": "i"}: the pattern matches somewhere in the text
regex_search(q, text) ==
    \E off \in 0..(Len(text) - Len(q)) :
        \A k \in 1..Len(q) : regex_char(q[k], text[off + k])

\* the query document list_products builds, applied to one product; an
\* empty or missing parameter adds no condition
matches(doc, shop_id, q, category) ==
    /\ (shop_id # "") => doc.shop_id = shop_id
    /\ (category # "") => doc.category = category
    /\ (q # <<>>) =>
          \/ regex_search(q, doc.title)
          \/ \E t \in 1..Len(doc.tags) : regex_search(q, doc.tags[t])

\* database.get_documents: the ids of the matching documents in the
\* store's order, at most limit of them
RECURSIVE get_documents(_, _, _, _, _, _)
get_documents(ids, prods, shop_id, q, category, limit) ==
    IF ids = <<>> \/ limit = 0 THEN <<>>
    ELSE IF Head(ids) \in DOMAIN prods /\ matches(prods[Head(ids)], shop_id, q, category)
         THEN <<Head(ids)>> \o get_documents(Tail(ids), prods, shop_id, q, category, limit - 1)
         ELSE get_documents(Tail(ids), prods, shop_id, q, category, limit)

list_products(shop_id, q, category, limit) ==
    /\ last' = Response("list_products", "", "", 0, 200, "",
                        [shop_id |-> shop_id, q |-> q, category |-> category,
                         limit |-> limit,
                         docs |-> get_documents(IdSeq, product, shop_id, q, category, limit)])
    /\ UNCHANGED <<store, inflight, submitted>>

----------------------------------------------------------------------------
(* Cart *)

get_cart(u) ==
    LET found == find_cart(cart, u)
        created == create_document(cart, Cart(u, <<>>))
    IN  /\ IF found # 0
           THEN /\ UNCHANGED cart
                /\ last' = Response("get_cart", u, "", 0, 200, "",
                                    serialize(found, cart[found]))
           ELSE /\ cart' = created
                /\ last' = Response("get_cart", u, "", 0, 200, "",
                                    serialize(Len(created), created[Len(created)]))
        /\ UNCHANGED <<product, issued, order, inflight, submitted>>

\* the loop without its search: the new entry is always appended
merge_item_append(items, pid, qty) == Append(items, [product_id |-> pid, qty |-> qty])

\* the loop of add_to_cart: the first entry with this product_id gets the
\* qty added; when there is none, a new entry is appended
RECURSIVE merge_item(_, _, _)
merge_item(items, pid, qty) ==
    IF items = <<>>
    THEN <<[product_id |-> pid, qty |-> qty]>>
    ELSE IF Head(items).product_id = pid
         THEN <<[Head(items) EXCEPT !.qty = @ + qty]>> \o Tail(items)
         ELSE <<Head(items)>> \o merge_item(Tail(items), pid, qty)

add_to_cart(u, pid, qty) ==
    LET found == find_cart(cart, u)
        c0 == IF found # 0 THEN cart ELSE Append(cart, Cart(u, <<>>))
        id == IF found # 0 THEN found ELSE Len(c0)
        items == merge_item(c0[id].items, pid, qty)
        c1 == set_items(c0, id, items)
    IN  /\ cart' = c1
        /\ submitted' = [submitted EXCEPT ![u][pid] = @ + qty]
        /\ last' = Response("add_to_cart", u, pid, qty, 200, "", serialize(id, c1[id]))
        /\ UNCHANGED <<product, issued, order, inflight>>

\* the comprehension with its test the wrong way round
without_inverted(items, pid) == SelectSeq(items, LAMBDA it : it.product_id = pid)

\* [it for it in items if it["product_id"] != pid]
without(items, pid) == SelectSeq(items, LAMBDA it : it.product_id # pid)

remove_from_cart(u, pid) ==
    LET found == find_cart(cart, u)
        c1 == set_items(cart, found, without(cart[found].items, pid))
    IN  /\ IF found = 0
           THEN /\ UNCHANGED <<cart, submitted>>
                /\ last' = Response("remove_from_cart", u, pid, 0, 404, "Cart not found", NoBody)
           ELSE /\ cart' = c1
                /\ submitted' = [submitted EXCEPT ![u][pid] = 0]
                /\ last' = Response("remove_from_cart", u, pid, 0, 200, "",
                                    serialize(found, c1[found]))
        /\ UNCHANGED <<product, issued, order, inflight>>

----------------------------------------------------------------------------
(* Checkout *)

\* the accumulation without the quantity: total += price
checkout_line_unit(acc, it, prods) ==
    IF it.product_id \notin DOMAIN prods
    THEN acc
    ELSE [order_items |-> Append(acc.order_items,
                                 [product_id |-> it.product_id, qty |-> it.qty,
                                  price |-> prods[it.product_id].price]),
          total |-> acc.total + prods[it.product_id].price]

\* one pass of the checkout loop over cart line it: the product is looked
\* up; a missing product leaves the accumulators as they are
checkout_line(acc, it, prods) ==
    IF it.product_id \notin DOMAIN prods
    THEN acc
    ELSE LET price == prods[it.product_id].price
             qty == it.qty
         IN  [order_items |-> Append(acc.order_items,
                                     [product_id |-> it.product_id,
                                      qty |-> qty, price |-> price]),
              total |-> acc.total + price * qty]

\* order_items = [] and total = 0.0 before the loop
Empty == [order_items |-> <<>>, total |-> 0]

\* the test without its second half: only a missing cart is rejected
cart_is_missing(c, found) == found = 0

\* if not cart or not cart.get("items")
cart_is_empty(c, found) == found = 0 \/ c[found].items = <<>>

RECURSIVE checkout_loop(_, _, _)
checkout_loop(acc, items, prods) ==
    IF items = <<>> THEN acc
    ELSE checkout_loop(checkout_line(acc, Head(items), prods), Tail(items), prods)

checkout(u) ==
    LET found == find_cart(cart, u)
        items == cart[found].items
        built == checkout_loop(Empty, items, product)
        o == Order(u, built.order_items, built.total, "paid")
        created == create_document(order, o)
    IN  /\ IF cart_is_empty(cart, found)
           THEN /\ last' = Response("checkout", u, "", 0, 400, "Cart is empty", NoBody)
                /\ UNCHANGED <<cart, order, submitted>>
           ELSE IF \E k \in 1..Len(items) : ~to_obj_id_ok(items[k].product_id)
           THEN /\ last' = Response("checkout", u, "", 0, 400, "Invalid id", NoBody)
                /\ UNCHANGED <<cart, order, submitted>>
           ELSE IF ~OrderValid(built.total)
           THEN /\ last' = Response("checkout", u, "", 0, 500, "validation", NoBody)
                /\ UNCHANGED <<cart, order, submitted>>
           ELSE /\ order' = created
                /\ cart' = set_items(cart, found, <<>>)
                /\ submitted' = [submitted EXCEPT ![u] = [x \in CartIds |-> 0]]
                /\ last' = Response("checkout", u, "", 0, 200, "",
                                    [id |-> Len(created), total |-> o.total,
                                     status |-> o.status])
        /\ UNCHANGED <<product, issued, inflight>>

----------------------------------------------------------------------------
(* Checkout, one store operation at a time *)

\* cart = db["cart"].find_one(...); the empty-cart check
checkout_find_cart(r, u) ==
    LET found == find_cart(cart, u)
    IN  /\ inflight[r].pc = "idle"
        /\ IF cart_is_empty(cart, found)
           THEN /\ last' = Response("checkout", u, "", 0, 400, "Cart is empty", NoBody)
                /\ UNCHANGED inflight
           ELSE /\ inflight' = [inflight EXCEPT ![r] =
                        [Idle EXCEPT !.pc = "loop", !.user = u, !.cart_id = found,
                                     !.items = cart[found].items, !.i = 1]]
                /\ UNCHANGED last
        /\ UNCHANGED <<store, submitted>>

\* one iteration: prod = db["product"].find_one(...) and the accumulation
checkout_find_product(r) ==
    LET l == inflight[r]
        it == l.items[l.i]
        acc == checkout_line([order_items |-> l.order_items, total |-> l.total],
                             it, product)
    IN  /\ l.pc = "loop"
        /\ l.i <= Len(l.items)
        /\ IF ~to_obj_id_ok(it.product_id)
           THEN /\ inflight' = [inflight EXCEPT ![r] = Idle]
                /\ last' = Response("checkout", l.user, "", 0, 400, "Invalid id", NoBody)
           ELSE /\ inflight' = [inflight EXCEPT ![r].i = @ + 1,
                                                ![r].order_items = acc.order_items,
                                                ![r].total = acc.total]
                /\ UNCHANGED last
        /\ UNCHANGED <<store, submitted>>

\* the write made conditional on the cart still holding what was read
checkout_create_order_if_unchanged(r) ==
    LET l == inflight[r]
        o == Order(l.user, l.order_items, l.total, "paid")
        created == create_document(order, o)
    IN  /\ l.pc = "loop"
        /\ l.i > Len(l.items)
        /\ IF cart[l.cart_id].items # l.items
           THEN /\ inflight' = [inflight EXCEPT ![r] = Idle]
                /\ last' = Response("checkout", l.user, "", 0, 409, "Cart changed", NoBody)
                /\ UNCHANGED order
           ELSE /\ order' = created
                /\ inflight' = [inflight EXCEPT ![r].pc = "clear",
                                                ![r].order_id = Len(created)]
                /\ UNCHANGED last
        /\ UNCHANGED <<product, issued, cart, submitted>>

\* order = Order(...); order_id = create_document("order", order)
checkout_create_order(r) ==
    LET l == inflight[r]
        o == Order(l.user, l.order_items, l.total, "paid")
        created == create_document(order, o)
    IN  /\ l.pc = "loop"
        /\ l.i > Len(l.items)
        /\ IF ~OrderValid(l.total)
           THEN /\ inflight' = [inflight EXCEPT ![r] = Idle]
                /\ last' = Response("checkout", l.user, "", 0, 500, "validation", NoBody)
                /\ UNCHANGED order
           ELSE /\ order' = created
                /\ inflight' = [inflight EXCEPT ![r].pc = "clear",
                                                ![r].order_id = Len(created)]
                /\ UNCHANGED last
        /\ UNCHANGED <<product, issued, cart, submitted>>

\* db["cart"].update_one({"_id": cart["_id"]}, {"$set": {"items": []}}) and
\* the response
checkout_clear_cart(r) ==
    LET l == inflight[r]
    IN  /\ l.pc = "clear"
        /\ cart' = set_items(cart, l.cart_id, <<>>)
        /\ submitted' = [submitted EXCEPT ![l.user] = [x \in CartIds |-> 0]]
        /\ inflight' = [inflight EXCEPT ![r] = Idle]
        /\ last' = Response("checkout", l.user, "", 0, 200, "",
                            [id |-> l.order_id, total |-> order[l.order_id].total,
                             status |-> order[l.order_id].status])
        /\ UNCHANGED <<product, issued, order>>

----------------------------------------------------------------------------
(* Requests served one at a time *)

NoText == <<>>
\* payloads of POST /api/products and PATCH /api/products/{id}
SoloInputs == {Product(NoText, 1000, "s1", "", <<>>)}
SoloPrices == {550}
CatalogueInputs ==
    {Product(NoText, 1000, "s1", "", <<>>), Product(NoText, 550, "s1", "", <<>>)}
CataloguePrices == {-100}

Init ==
    /\ product = <<>>
    /\ issued = 0
    /\ cart = <<>>
    /\ order = <<>>
    /\ inflight = [r \in Requests |-> Idle]
    /\ submitted = [u \in Users |-> [x \in CartIds |-> 0]]
    /\ last = Response("", "", "", 0, 0, "", NoBody)

\* the model's caps on what the code leaves unbounded
QtyRoom ==
    \A c \in 1..Len(cart') : \A k \in 1..Len(cart'[c].items) :
        cart'[c].items[k].qty <= MaxQty
OrderRoom == Len(order') <= MaxOrders

\* a product id goes into a cart that does not hold it
Fresh(u, pid) == submitted[u][pid] = 0

\* The whole API, two users, a catalogue of one product
SoloIds == {"p1"}
Next ==
    \/ \E p \in SoloInputs : NextProductId \in SoloIds /\ create_product(p)
    \/ \E id \in SoloIds, price \in SoloPrices : update_product(id, price)
    \/ \E id \in SoloIds : delete_product(id)
    \/ \E u \in Users : get_cart(u)
    \/ \E u \in Users, pid \in SoloIds, qty \in Qtys :
            Fresh(u, pid) /\ add_to_cart(u, pid, qty)
    \/ \E u \in Users, pid \in SoloIds : remove_from_cart(u, pid)
    \/ \E u \in Users : checkout(u) /\ OrderRoom

Spec == Init /\ [][Next]_vars

\* One user, a catalogue of two products, unvalidated price changes and
\* malformed product ids; each product id is put in the cart once, and a
\* run ends with its first order
Buyer == "u1"
NextCatalogue ==
    \/ \E p \in CatalogueInputs : create_product(p)
    \/ \E id \in CartIds, price \in CataloguePrices : update_product(id, price)
    \/ \E id \in CartIds : delete_product(id)
    \/ \E pid \in CartIds, qty \in Qtys :
            Fresh(Buyer, pid) /\ add_to_cart(Buyer, pid, qty)
    \/ \E pid \in CartIds : remove_from_cart(Buyer, pid)
    \/ checkout(Buyer) /\ order = <<>>

SpecCatalogue == Init /\ [][NextCatalogue]_vars

\* The cart handlers with merging, and checkout over an empty catalogue:
\* one user shops over three product ids, the other for one product
CartInputs == ({Buyer} \X CartIds) \cup ({"u2"} \X SoloIds)
NextCart ==
    \/ \E u \in Users : get_cart(u)
    \/ \E in \in CartInputs, qty \in Qtys :
            add_to_cart(in[1], in[2], qty) /\ QtyRoom
    \/ \E in \in CartInputs : remove_from_cart(in[1], in[2])
    \/ \E u \in Users : checkout(u) /\ OrderRoom

SpecCart == Init /\ [][NextCart]_vars

\* Checkout requests of one user interleaved at store operations, with
\* the other handlers served between their steps; the catalogue holds its
\* product from the start
InitConc ==
    /\ product = ("p1" :> Product(NoText, 1000, "s1", "", <<>>))
    /\ issued = 1
    /\ cart = <<>>
    /\ order = <<>>
    /\ inflight = [r \in Requests |-> Idle]
    /\ submitted = [u \in Users |-> [x \in CartIds |-> 0]]
    /\ last = Response("", "", "", 0, 0, "", NoBody)

Started == Cardinality({r \in Requests : inflight[r].pc # "idle"})
NextConc ==
    \/ \E id \in SoloIds, price \in SoloPrices : update_product(id, price)
    \/ \E pid \in SoloIds, qty \in Qtys : add_to_cart(Buyer, pid, qty) /\ QtyRoom
    \/ \E r \in Requests :
            Len(order) + Started < MaxOrders /\ checkout_find_cart(r, Buyer)
    \/ \E r \in Requests : checkout_find_product(r)
    \/ \E r \in Requests : checkout_create_order(r)
    \/ \E r \in Requests : checkout_clear_cart(r)

SpecConc == InitConc /\ [][NextConc]_vars

\* The catalogue and its listing
RedShoes == <<"R", "e", "d", " ", "S", "h", "o", "e", "s">>
RedShoeSale == <<"r", "e", "d", "-", "s", "h", "o", "e", "-", "s", "a", "l", "e">>
Hat == <<"H", "a", "t">>
SearchInputs ==
    {Product(RedShoes, 1000, "s1", "c1", <<>>),
     Product(Hat, 550, "s1", "c2", <<Hat, RedShoeSale>>),
     Product(Hat, 550, "s2", "c1", <<>>)}
Queries ==
    {<<>>, <<"r", "e", "d", " ", "s", "h", "o", "e">>, <<"S", "H", "O", "E">>,
     <<"d", ".", "s">>, <<"h", "a", "t", "s">>}
Limits == {1, DefaultLimit}
NextList ==
    \/ \E p \in SearchInputs : create_product(p)
    \/ \E id \in ProductIds : delete_product(id)
    \/ \E shop_id \in {"", "s1", "s2"}, q \in Queries, category \in {"", "c1"},
          limit \in Limits : list_products(shop_id, q, category, limit)

SpecList == Init /\ [][NextList]_vars

----------------------------------------------------------------------------
(* Properties *)

TheCart(u) == cart[find_cart(cart, u)]
HasCart(u) == find_cart(cart, u) # 0
CheckoutOk == last'.op = "checkout" /\ last'.status = 200

\* C1: every order checkout has persisted holds at least one line item
C1_NoZeroItemOrder == \A o \in 1..Len(order) : order[o].items # <<>>

\* C3: a checkout for a user whose cart is absent or has no items answers
\* 400 "Cart is empty" and changes nothing in the store: no order, no cart,
\* no product is created or modified
C3_EmptyCartRejected ==
    [][\A u \in Users :
          (last'.op = "checkout" /\ last'.user = u
              /\ (~HasCart(u) \/ TheCart(u).items = <<>>))
          => (/\ last'.status = 400
              /\ last'.detail = "Cart is empty"
              /\ UNCHANGED store)]_vars

\* a checkout of a present but empty cart was rejected, with an order and
\* another user's full cart in the store
C3_Witness ==
    /\ last.op = "checkout" /\ last.status = 400 /\ last.detail = "Cart is empty"
    /\ HasCart(last.user) /\ TheCart(last.user).items = <<>>
    /\ order # <<>>
    /\ \E u \in Users : HasCart(u) /\ TheCart(u).items # <<>>

\* C5: a successful checkout appends exactly one order and leaves the
\* earlier ones as they were, empties the caller's cart while keeping the
\* cart document (same position, same user_id), leaves every other cart and
\* every product alone, and answers with the new order's id, total, status
C5_CheckoutFrame ==
    [][CheckoutOk =>
          LET u == last'.user
              found == find_cart(cart, u)
              id == last'.body.id
          IN  /\ Len(order') = Len(order) + 1
              /\ \A o \in 1..Len(order) : order'[o] = order[o]
              /\ order'[Len(order')].user_id = u
              /\ found # 0
              /\ Len(cart') = Len(cart)
              /\ cart'[found].user_id = u
              /\ cart'[found].items = <<>>
              /\ \A c \in 1..Len(cart) : c # found => cart'[c] = cart[c]
              /\ UNCHANGED <<product, issued>>
              /\ id = Len(order')
              /\ last'.body.total = order'[id].total
              /\ last'.body.status = order'[id].status]_vars

\* the second order was just persisted while the other user's cart is full
C5_Witness ==
    /\ last.op = "checkout" /\ last.status = 200
    /\ Len(order) = 2 /\ last.body.id = 2
    /\ order[2].items # <<>>
    /\ \E u \in Users : u # last.user /\ HasCart(u) /\ TheCart(u).items # <<>>

\* C6: an order's lines carry the prices the products had when checkout
\* read them, and a persisted order never changes: whatever is served
\* afterwards, its items, their prices and its total stay as written
C6_OrdersFrozen ==
    [][/\ Len(order') >= Len(order)
       /\ \A o \in 1..Len(order) : order'[o] = order[o]
       /\ CheckoutOk =>
             \A k \in 1..Len(order'[Len(order')].items) :
                LET line == order'[Len(order')].items[k]
                IN  /\ line.product_id \in DOMAIN product
                    /\ line.price = product[line.product_id].price]_vars

\* after a price change, an order still shows the price it was placed at
C6_Witness ==
    /\ last.op = "update_product" /\ last.status = 200
    /\ \E o \in 1..Len(order) : \E k \in 1..Len(order[o].items) :
          LET line == order[o].items[k]
          IN  /\ line.product_id \in DOMAIN product
              /\ line.price # product[line.product_id].price

\* C7: no user ever has two carts; get_cart creates one empty cart for a
\* user without one and otherwise returns the stored cart without writing;
\* add_to_cart, remove_from_cart and checkout leave a user who has a cart
\* with that one cart
CartsOf(c, u) == {k \in 1..Len(c) : c[k].user_id = u}
C7_OneCartPerUser ==
    [][/\ \A u \in Users : Cardinality(CartsOf(cart', u)) <= 1
       /\ last'.op = "get_cart" =>
             LET u == last'.user
                 found == find_cart(cart, u)
             IN  IF found = 0
                 THEN /\ cart' = Append(cart, Cart(u, <<>>))
                      /\ last'.body = [id |-> Len(cart'), user_id |-> u, items |-> <<>>]
                 ELSE /\ cart' = cart
                      /\ last'.body = [id |-> found, user_id |-> u,
                                       items |-> cart[found].items]
       /\ last'.op \in {"add_to_cart", "remove_from_cart", "checkout"} =>
             \A u \in Users : HasCart(u) => CartsOf(cart', u) = CartsOf(cart, u)]_vars

\* get_cart returned a stored, filled cart while both users have a cart
C7_Witness ==
    /\ last.op = "get_cart" /\ last.status = 200
    /\ last.body.items # <<>>
    /\ \A u \in Users : Cardinality(CartsOf(cart, u)) = 1

\* the positions of the entries of items for product id pid
EntriesOf(items, pid) == {k \in 1..Len(items) : items[k].product_id = pid}

\* C2: a cart holds at most one entry per product_id, and that entry's qty
\* is the sum of the qtys added for it since the product_id was last out
\* of the cart; a product_id nothing was added for has no entry
C2_MergeOnAdd ==
    \A c \in 1..Len(cart) : \A pid \in CartIds :
        LET e == EntriesOf(cart[c].items, pid)
            sum == submitted[cart[c].user_id][pid]
        IN  /\ Cardinality(e) <= 1
            /\ (sum = 0) <=> (e = {})
            /\ \A k \in e : cart[c].items[k].qty = sum

\* an add of qty 1 has just been merged into an entry that now holds 2, in
\* a cart of two entries
C2_Witness ==
    /\ last.op = "add_to_cart" /\ last.qty = 1
    /\ Len(last.body.items) = 2
    /\ \E k \in 1..2 : /\ last.body.items[k].product_id = last.pid
                       /\ last.body.items[k].qty = 2
    /\ TheCart(last.user).items = last.body.items

\* the k-th smallest member of a set of positions
Nth(S, k) == CHOOSE x \in S : Cardinality({y \in S : y < x}) = k - 1

\* C8: remove_from_cart answers 404 "Cart not found" for a user without a
\* cart and creates none; otherwise the stored and returned items are the
\* old entries with another product_id, each as it was and in the old
\* order, so a product_id the cart does not hold changes nothing
C8_RemoveItem ==
    [][last'.op = "remove_from_cart" =>
          LET u == last'.user
              found == find_cart(cart, u)
              old == cart[found].items
              keep == {k \in 1..Len(old) : old[k].product_id # last'.pid}
              new == cart'[found].items
          IN  IF found = 0
              THEN /\ last'.status = 404
                   /\ last'.detail = "Cart not found"
                   /\ cart' = cart
              ELSE /\ last'.status = 200
                   /\ Len(cart') = Len(cart)
                   /\ \A c \in 1..Len(cart) : c # found => cart'[c] = cart[c]
                   /\ cart'[found].user_id = u
                   /\ Len(new) = Cardinality(keep)
                   /\ \A k \in 1..Len(new) : new[k] = old[Nth(keep, k)]
                   /\ last'.body.items = new
                   /\ (EntriesOf(old, last'.pid) = {}) => cart' = cart]_vars

\* a remove left two entries in the cart, and the product_id it named is
\* not among them
C8_Witness ==
    /\ last.op = "remove_from_cart" /\ last.status = 200
    /\ Len(last.body.items) = 2
    /\ EntriesOf(last.body.items, last.pid) = {}
    /\ TheCart(last.user).items = last.body.items

\* the lines of an order or a cart as <<product_id, qty>> pairs
Pairs(items) == [k \in 1..Len(items) |-> <<items[k].product_id, items[k].qty>>]

RECURSIVE SumLines(_)
SumLines(lines) ==
    IF lines = <<>> THEN 0
    ELSE Head(lines).price * Head(lines).qty + SumLines(Tail(lines))

\* C4: the order a successful checkout persists holds exactly the cart's
\* lines whose product exists, in cart order, each with the cart line's qty
\* and the product's current price; lines of missing products are left out;
\* the total is the sum of price * qty over the order's lines; status is
\* "paid"
C4_OrderContent ==
    [][CheckoutOk =>
          LET u == last'.user
              old == TheCart(u).items
              live == {k \in 1..Len(old) : old[k].product_id \in DOMAIN product}
              o == order'[Len(order')]
          IN  /\ o.user_id = u
              /\ Len(o.items) = Cardinality(live)
              /\ \A k \in 1..Len(o.items) :
                    LET it == old[Nth(live, k)]
                    IN  o.items[k] = [product_id |-> it.product_id, qty |-> it.qty,
                                      price |-> product[it.product_id].price]
              /\ o.total = SumLines(o.items)
              /\ o.status = "paid"]_vars

\* the cart [{p1, 2}, {p2, 1}] with prices 10.00 and 5.50 was checked out:
\* lines with the snapshot prices, total 25.50, paid, and the cart is empty
C4_Witness ==
    /\ last.op = "checkout" /\ last.status = 200
    /\ order = <<Order(Buyer,
                       <<[product_id |-> "p1", qty |-> 2, price |-> 1000],
                         [product_id |-> "p2", qty |-> 1, price |-> 550]>>,
                       2550, "paid")>>
    /\ last.body.total = 2550
    /\ TheCart(Buyer).items = <<>>

\* C10: a checkout that has read a non-empty cart persists an order with
\* the lines it read and answers 200, whatever other requests did to the
\* cart in between; nothing ends a started checkout but its own response
C10_NotAtomic ==
    [][\A r \in Requests :
          LET l == inflight[r]
              l2 == inflight'[r]
          IN  /\ (l.pc = "loop" /\ l2.pc = "clear") =>
                    /\ Len(order') = Len(order) + 1
                    /\ order'[Len(order')].user_id = l.user
                    /\ Pairs(order'[Len(order')].items) = Pairs(l.items)
                    /\ l2.order_id = Len(order')
              /\ (l.pc # "idle" /\ l2.pc = "idle") =>
                    /\ l.pc = "clear"
                    /\ last'.op = "checkout" /\ last'.status = 200
                    /\ last'.body.id = l.order_id]_vars

\* two checkouts of one user have both persisted their order and neither
\* has cleared the cart yet: the two orders hold the lines of the one cart
C10_Witness ==
    /\ \A r \in Requests : inflight[r].pc = "clear" /\ inflight[r].user = Buyer
    /\ Len(order) = 2
    /\ Pairs(order[1].items) = Pairs(order[2].items)
    /\ Pairs(order[1].items) = Pairs(TheCart(Buyer).items)
    /\ order[1].items # <<>>

\* q occurs in text, letter case aside
substring_ci(q, text) ==
    \E off \in 0..(Len(text) - Len(q)) :
        \A k \in 1..Len(q) : Lower(q[k]) = Lower(text[off + k])

\* C9: with a limit that does not cut the result, list_products returns
\* exactly the products that pass the shop_id and category filters that
\* were given and in whose title or one of whose tags q occurs as a
\* case-insensitive substring
C9_SubstringFilter ==
    (last.op = "list_products" /\ last.body.limit = DefaultLimit) =>
        LET b == last.body
            hits == {id \in DOMAIN product :
                        /\ (b.shop_id # "") => product[id].shop_id = b.shop_id
                        /\ (b.category # "") => product[id].category = b.category
                        /\ (b.q # <<>>) =>
                              \/ substring_ci(b.q, product[id].title)
                              \/ \E t \in 1..Len(product[id].tags) :
                                    substring_ci(b.q, product[id].tags[t])}
        IN  /\ {b.docs[k] : k \in 1..Len(b.docs)} = hits
            /\ Len(b.docs) = Cardinality(hits)

====
